---- MODULE Spec2Model ----
(***************************************************************************)
(* jsonl_gzip_logger: a process-wide logger that writes one JSON record    *)
(* per line through a gzip encoder (src/src/lib.rs), and the iterator that *)
(* reads such a file back.                                                 *)
(*                                                                         *)
(* Bytes are modelled as tokens (strings): the JSON punctuation, the line  *)
(* terminator, the quote and the backslash are single tokens; a run of     *)
(* plain characters (a key, a level name, a number) is one token.          *)
(***************************************************************************)
EXTENDS Integers, Sequences, FiniteSets, TLC

----------------------------------------------------------------------------
(* Bounds of the model *)

\* Largest reading of the monotonic clock (Instant), in ticks.
MaxTime == 1
\* Number of calls (init, log, flush) the threads start in all.
MaxOps == 3
\* Number of calls the one thread of a sequential run starts.
MaxSeqOps == 5
\* Ticks in one second: the scale at which Duration splits into secs/nanos.
TicksPerSec == 2
\* Number of lines in a stream handed to the decoder.
MaxLines == 2
\* Number of calls of next() made after the first None.
MaxProbes == 2
\* Number of pieces the format arguments of an encoded event are made of.
MaxPieces == 2

----------------------------------------------------------------------------
(* log::Level and log::LevelFilter *)

Off == 0
Error == 1
Warn == 2
Info == 3
Debug == 4
Trace == 5

Levels == Error..Trace
LevelFilters == Off..Trace

\* Names as the variants of Level are spelled in Rust.
LOG_LEVEL_NAMES_Variants == <<"Off", "Error", "Warn", "Info", "Debug", "Trace">>

\* log::LOG_LEVEL_NAMES, the names Level serializes to (index = level + 1).
LOG_LEVEL_NAMES == <<"OFF", "ERROR", "WARN", "INFO", "DEBUG", "TRACE">>

\* The lowercase spellings Level::from_str accepts as well (it compares
\* ignoring ASCII case).
LowerNames == <<"off", "error", "warn", "info", "debug", "trace">>

----------------------------------------------------------------------------
(* Tokens *)

Q == "\""
BS == "\\"
NL == "\n"
SP == " "

RECURSIVE Flatten(_)
Flatten(ss) == IF ss = <<>> THEN <<>> ELSE Head(ss) \o Flatten(Tail(ss))

Nums == 0..(MaxTime + TicksPerSec)

NumTok(n) == ToString(n)

IsNumTok(t) == \E n \in Nums : NumTok(n) = t

NumVal(t) == CHOOSE n \in Nums : NumTok(n) = t

----------------------------------------------------------------------------
(* std::time::Duration *)

\* Duration::new(secs, nanos): carries whole seconds out of nanos.
DurationNew(secs, nanos) ==
  [secs |-> secs + (nanos \div TicksPerSec), nanos |-> nanos % TicksPerSec]

\* The Duration of a number of clock ticks.
DurationOf(ticks) == DurationNew(0, ticks)

\* Ord for Duration: seconds first, then nanos.
DurLeq(a, b) == a.secs < b.secs \/ (a.secs = b.secs /\ a.nanos <= b.nanos)

----------------------------------------------------------------------------
(* Serialize: LogEntry and LogEntryArgs through serde_json *)

\* An escaping that leaves the line terminator as it is.
EscapeChar_QuoteOnly(c) ==
  IF c = Q THEN <<BS, Q>>
  ELSE IF c = BS THEN <<BS, BS>>
  ELSE <<c>>

\* serde_json's string escaping of one character.
EscapeChar(c) ==
  IF c = Q THEN <<BS, Q>>
  ELSE IF c = BS THEN <<BS, BS>>
  ELSE IF c = NL THEN <<BS, "n">>
  ELSE <<c>>

\* format_escaped_str_contents: the characters of a string, each escaped.
EscapeStr(str) == Flatten([i \in 1..Len(str) |-> EscapeChar(str[i])])

\* A JSON string: quote, escaped characters, quote.
SerStr(str) == <<Q>> \o EscapeStr(str) \o <<Q>>

\* Serialize for Duration: a struct of secs and nanos.
SerDuration(d) ==
  <<"{">> \o SerStr(<<"secs">>) \o <<":", NumTok(d.secs), ",">>
          \o SerStr(<<"nanos">>) \o <<":", NumTok(d.nanos), "}">>

\* Serialize for log::Level: the unit variant named by LOG_LEVEL_NAMES.
SerLevel(l) == SerStr(<<LOG_LEVEL_NAMES[l + 1]>>)

\* #[derive(Serialize)] struct LogEntry: the four fields in declaration order.
SerLogEntry(e) ==
  <<"{">> \o SerStr(<<"offset">>) \o <<":">> \o SerDuration(e.offset)
  \o <<",">> \o SerStr(<<"level">>) \o <<":">> \o SerLevel(e.level)
  \o <<",">> \o SerStr(<<"target">>) \o <<":">> \o SerStr(e.target)
  \o <<",">> \o SerStr(<<"body">>) \o <<":">> \o SerStr(e.body)
  \o <<"}">>

\* fmt::Arguments rendered by Display: the pieces of the format string with
\* the arguments put in, in order.
Render(args) == Flatten(args)

\* A collect_str that hands the pieces to the writer as they are.
CollectStr_Raw(args) == <<Q>> \o Flatten(args) \o <<Q>>

\* Serialize for fmt::Arguments (serde_json's collect_str): the opening quote,
\* then each piece the Display impl writes is escaped and written on its own,
\* then the closing quote. No String of the whole body is built.
CollectStr(args) ==
  <<Q>> \o Flatten([i \in 1..Len(args) |-> EscapeStr(args[i])]) \o <<Q>>

\* #[derive(Serialize)] struct LogEntryArgs: the four fields in declaration
\* order, the body being the Arguments.
SerLogEntryArgs(a) ==
  <<"{">> \o SerStr(<<"offset">>) \o <<":">> \o SerDuration(a.offset)
  \o <<",">> \o SerStr(<<"level">>) \o <<":">> \o SerLevel(a.level)
  \o <<",">> \o SerStr(<<"target">>) \o <<":">> \o SerStr(a.target)
  \o <<",">> \o SerStr(<<"body">>) \o <<":">> \o CollectStr(a.body)
  \o <<"}">>

----------------------------------------------------------------------------
(* Deserialize: serde_json::from_slice::<LogEntry> *)

IsWs(t) == t \in {SP, NL}

RECURSIVE SkipWs(_, _)
SkipWs(s, i) == IF i <= Len(s) /\ IsWs(s[i]) THEN SkipWs(s, i + 1) ELSE i

At(s, i, t) == i <= Len(s) /\ s[i] = t

StrFail == [ok |-> FALSE, val |-> <<>>, next |-> 0]

\* The characters of a JSON string from position i (after the opening
\* quote) to the closing quote, escapes undone.
RECURSIVE StrBody(_, _, _)
StrBody(s, i, acc) ==
  IF i > Len(s) THEN StrFail
  ELSE IF s[i] = Q THEN [ok |-> TRUE, val |-> acc, next |-> i + 1]
  ELSE IF s[i] = NL THEN StrFail
  ELSE IF s[i] = BS THEN
    IF i + 1 > Len(s) THEN StrFail
    ELSE IF s[i + 1] = Q THEN StrBody(s, i + 2, Append(acc, Q))
    ELSE IF s[i + 1] = BS THEN StrBody(s, i + 2, Append(acc, BS))
    ELSE IF s[i + 1] = "n" THEN StrBody(s, i + 2, Append(acc, NL))
    ELSE StrFail
  ELSE StrBody(s, i + 1, Append(acc, s[i]))

ParseStr(s, i) == IF At(s, i, Q) THEN StrBody(s, i + 1, <<>>) ELSE StrFail

NumFail == [ok |-> FALSE, val |-> 0, next |-> 0]

ParseNum(s, i) ==
  IF i <= Len(s) /\ IsNumTok(s[i])
  THEN [ok |-> TRUE, val |-> NumVal(s[i]), next |-> i + 1]
  ELSE NumFail

DurFail == [ok |-> FALSE, val |-> [secs |-> 0, nanos |-> 0], next |-> 0]

\* The members of a Duration object, from the key at position i: secs and
\* nanos in any order, each once, nothing else. One operator per step of the
\* visitor: the key, the colon, the number, and what follows it.
RECURSIVE DurMembers(_, _, _, _)
RECURSIVE DurKey(_, _, _, _)
RECURSIVE DurColon(_, _, _, _, _)
RECURSIVE DurValue(_, _, _, _, _)
RECURSIVE DurEnd(_, _, _, _)
DurMembers(s, i, seen, acc) == DurKey(s, ParseStr(s, i), seen, acc)

DurKey(s, k, seen, acc) ==
  IF ~k.ok \/ k.val \notin {<<"secs">>, <<"nanos">>} THEN DurFail
  ELSE DurColon(s, k.val[1], SkipWs(s, k.next), seen, acc)

DurColon(s, f, c, seen, acc) ==
  IF f \in seen \/ ~At(s, c, ":") THEN DurFail
  ELSE DurValue(s, f, ParseNum(s, SkipWs(s, c + 1)), seen, acc)

DurValue(s, f, n, seen, acc) ==
  IF ~n.ok THEN DurFail
  ELSE DurEnd(s, SkipWs(s, n.next), seen \cup {f},
              IF f = "secs" THEN [acc EXCEPT !.secs = n.val]
                            ELSE [acc EXCEPT !.nanos = n.val])

DurEnd(s, e, seen, acc) ==
  IF At(s, e, ",") THEN DurMembers(s, SkipWs(s, e + 1), seen, acc)
  ELSE IF At(s, e, "}") /\ seen = {"secs", "nanos"}
    THEN [ok |-> TRUE, val |-> DurationNew(acc.secs, acc.nanos), next |-> e + 1]
  ELSE DurFail

\* Deserialize for Duration.
ParseDuration(s, i) ==
  IF At(s, i, "{") THEN DurMembers(s, SkipWs(s, i + 1), {}, DurFail.val)
  ELSE DurFail

LevelFail == [ok |-> FALSE, val |-> 0, next |-> 0]

\* Level::from_str: the position of the name in LOG_LEVEL_NAMES, ignoring
\* case, "OFF" excluded.
LevelFromStr(name) ==
  LET hits == {l \in Levels : LOG_LEVEL_NAMES[l + 1] = name \/ LowerNames[l + 1] = name}
  IN IF hits = {} THEN Off ELSE CHOOSE l \in hits : TRUE

\* Deserialize for log::Level: a string naming a level.
LevelNamed(k) ==
  IF k.ok /\ Len(k.val) = 1 /\ LevelFromStr(k.val[1]) # Off
  THEN [ok |-> TRUE, val |-> LevelFromStr(k.val[1]), next |-> k.next]
  ELSE LevelFail

ParseLevel(s, i) == LevelNamed(ParseStr(s, i))

\* A value that is skipped (serde's IgnoredAny): a string, a number or an
\* object; the position after it, 0 when there is no value.
RECURSIVE SkipValue(_, _)
RECURSIVE SkipMembers(_, _)
RECURSIVE SkipObject(_, _)
RECURSIVE SkipKey(_, _)
RECURSIVE SkipColon(_, _)
RECURSIVE SkipEnd(_, _)
SkipValue(s, i) ==
  IF At(s, i, Q) THEN ParseStr(s, i).next
  ELSE IF ParseNum(s, i).ok THEN i + 1
  ELSE IF At(s, i, "{") THEN SkipObject(s, SkipWs(s, i + 1))
  ELSE 0

SkipObject(s, j) == IF At(s, j, "}") THEN j + 1 ELSE SkipMembers(s, j)

SkipMembers(s, i) == SkipKey(s, ParseStr(s, i))

SkipKey(s, k) == IF ~k.ok THEN 0 ELSE SkipColon(s, SkipWs(s, k.next))

SkipColon(s, c) ==
  IF ~At(s, c, ":") THEN 0 ELSE SkipEnd(s, SkipValue(s, SkipWs(s, c + 1)))

SkipEnd(s, v) ==
  IF v = 0 THEN 0
  ELSE IF At(s, SkipWs(s, v), ",") THEN SkipMembers(s, SkipWs(s, SkipWs(s, v) + 1))
  ELSE IF At(s, SkipWs(s, v), "}") THEN SkipWs(s, v) + 1
  ELSE 0

\* The value skipped as the result of a parse.
Skipped(n) == [ok |-> n # 0, val |-> 0, next |-> n]

EntryFields == {"offset", "level", "target", "body"}

EmptyEntry ==
  [offset |-> [secs |-> 0, nanos |-> 0], level |-> Off, target |-> <<>>, body |-> <<>>]

EntryFail == [ok |-> FALSE, val |-> EmptyEntry, next |-> 0]

\* The field a key names (the derived Field visitor): unknown keys are
\* ignored.
FieldOf(k) == IF Len(k.val) = 1 /\ k.val[1] \in EntryFields THEN k.val[1] ELSE "other"

\* The value of field f at position v, by the type of the field.
ParseField(s, f, v) ==
  CASE f = "offset" -> ParseDuration(s, v)
    [] f = "level" -> ParseLevel(s, v)
    [] f \in {"target", "body"} -> ParseStr(s, v)
    [] OTHER -> Skipped(SkipValue(s, v))

PutField(acc, f, x) ==
  CASE f = "offset" -> [acc EXCEPT !.offset = x]
    [] f = "level" -> [acc EXCEPT !.level = x]
    [] f = "target" -> [acc EXCEPT !.target = x]
    [] f = "body" -> [acc EXCEPT !.body = x]
    [] OTHER -> acc

\* The members of a LogEntry object, from the key at position i: the four
\* fields in any order, none twice, unknown keys skipped. One operator per
\* step of the visitor: the key, the colon, the value, and what follows it.
RECURSIVE EntryMembers(_, _, _, _)
RECURSIVE EntryKey(_, _, _, _)
RECURSIVE EntryColon(_, _, _, _, _)
RECURSIVE EntryValue(_, _, _, _, _)
RECURSIVE EntryEnd(_, _, _, _)
EntryMembers(s, i, seen, acc) == EntryKey(s, ParseStr(s, i), seen, acc)

EntryKey(s, k, seen, acc) ==
  IF ~k.ok THEN EntryFail
  ELSE EntryColon(s, FieldOf(k), SkipWs(s, k.next), seen, acc)

EntryColon(s, f, c, seen, acc) ==
  IF f \in seen \/ ~At(s, c, ":") THEN EntryFail
  ELSE EntryValue(s, f, ParseField(s, f, SkipWs(s, c + 1)), seen, acc)

EntryValue(s, f, x, seen, acc) ==
  IF ~x.ok THEN EntryFail
  ELSE EntryEnd(s, SkipWs(s, x.next),
                IF f = "other" THEN seen ELSE seen \cup {f},
                PutField(acc, f, x.val))

EntryEnd(s, e, seen, acc) ==
  IF At(s, e, ",") THEN EntryMembers(s, SkipWs(s, e + 1), seen, acc)
  ELSE IF At(s, e, "}") /\ seen = EntryFields
    THEN [ok |-> TRUE, val |-> acc, next |-> e + 1]
  ELSE EntryFail

\* The object at position i of buf, if one starts there and is not empty.
EntryAt(buf, i) ==
  IF At(buf, i, "{") /\ ~At(buf, SkipWs(buf, i + 1), "}")
  THEN EntryMembers(buf, SkipWs(buf, i + 1), {}, EmptyEntry)
  ELSE EntryFail

\* Deserializer::end: only white space may follow the value.
Ended(buf, r) == IF r.ok /\ SkipWs(buf, r.next) = Len(buf) + 1 THEN r ELSE EntryFail

\* serde_json::from_slice::<LogEntry>(buf): one object, white space allowed
\* around it, nothing else after it.
FromSlice(buf) == Ended(buf, EntryAt(buf, SkipWs(buf, 1)))

----------------------------------------------------------------------------
(* LogEntryIter *)

\* A read that stops before the line terminator and leaves it in the source.
RECURSIVE ReadUntil_Exclusive(_, _)
ReadUntil_Exclusive(src, pos) ==
  IF pos > Len(src) THEN pos
  ELSE IF src[pos] = NL THEN pos
  ELSE ReadUntil_Exclusive(src, pos + 1)

\* BufRead::read_until(b'\n', buf) from position pos of the decompressed
\* source: the position after the bytes read, i.e. after the next line
\* terminator, or the end of the source.
RECURSIVE ReadUntil(_, _)
ReadUntil(src, pos) ==
  IF pos > Len(src) THEN pos
  ELSE IF src[pos] = NL THEN pos + 1
  ELSE ReadUntil(src, pos + 1)

None == [some |-> FALSE, val |-> EmptyEntry]

Some(e) == [some |-> TRUE, val |-> e]

\* .ok() of the parse: the entry, or None.
Item(parsed) == IF parsed.ok THEN Some(parsed.val) ELSE None

\* The last byte of the buffer is the line terminator.
Terminated(buffer) == buffer # <<>> /\ buffer[Len(buffer)] = NL

\* The item next() returns when read_until has filled the buffer.
Decode(buffer) == IF Terminated(buffer) THEN Item(FromSlice(buffer)) ELSE None

\* next() without the test of the last byte of the buffer.
IterNext_NoTerminatorCheck(src, pos) ==
  LET end == ReadUntil(src, pos)
  IN [item |-> Item(FromSlice(SubSeq(src, pos, end - 1))), pos |-> end]

\* LogEntryIter::next when the read succeeds: the item returned and the new
\* position of the source.
IterNext(src, pos) ==
  LET end == ReadUntil(src, pos)
  IN [item |-> Decode(SubSeq(src, pos, end - 1)), pos |-> end]

\* What a consumer that stops at the first None collects (Iterator::count,
\* collect, a for loop) from a fresh read of the source.
RECURSIVE Collect(_, _)
Collect(src, pos) ==
  LET r == IterNext(src, pos)
  IN IF r.item.some THEN <<r.item.val>> \o Collect(src, r.pos) ELSE <<>>

ReadAll(src) == Collect(src, 1)

----------------------------------------------------------------------------
(* The process: threads calling init, log and flush *)

Threads == {"t1", "t2"}

NoThread == "none"

\* Paths given to init: "p" can be created, "bad" cannot.
Paths == {"p", "bad"}
Creatable == {"p"}
NoPath == "nopath"

\* The threshold a thread gives to init, and the levels of the events logged.
InitLevels(t) == IF t = "t1" THEN {Info} ELSE {Debug}
EventLevels == {Info, Debug}

\* target of the events a thread logs.
TargetOf(t) == <<t>>

\* The format arguments of every event: a piece, a line terminator, a quote.
EventArgs == << <<"m">>, <<NL, Q>> >>

VARIABLES
  now,        \* the monotonic clock read by Instant::now()
  logger,     \* the global logger of the log crate: the installed Logger
  maxLevel,   \* log::max_level()
  holder,     \* the thread holding Logger.dest's Mutex, or NoThread
  poisoned,   \* Logger.dest's Mutex is poisoned
  stream,     \* the bytes handed to the installed Logger's GzEncoder
  flushed,    \* how many of them can be decoded from the file
  hdr,        \* the installed GzEncoder has written its gzip header
  exists,     \* exists[p]: a file exists at path p
  pc,         \* pc[t]: where thread t is in the call it runs
  ops,        \* the number of calls started so far
  limit,      \* the number of calls the run may start
  loc,        \* loc[t]: the locals of the call thread t runs
  ret,        \* ret[t]: what the last init call of thread t returned
  clobbered,  \* history: the installed Logger's file was created again or
              \* written by another encoder
  shadowed,   \* history: ... after the installed encoder had written to it
  synced,     \* history: a flush has returned and nothing was written since
  events,     \* history: the events log() was called with, in call order
  written,    \* history: the entries written with their terminator, in order
  acquired    \* history: the entries of the log calls that took the lock, in
              \* the order in which they took it

\* A LogEntryIter and the calls of next() made on it.
VARIABLES
  lines,      \* the terminated lines of the decompressed source, as chosen
  tail,       \* the bytes after the last line terminator
  src,        \* LogEntryIter.source: the decompressed bytes
  pos,        \* the position of the source, from 1
  yielded,    \* history: the entries next() has returned
  nones,      \* history: the number of calls that returned None
  lateSome,   \* history: next() returned an entry after it had returned None
  erred       \* history: a read of the source has failed

sinkVars == <<now, logger, maxLevel, holder, poisoned, stream, flushed, hdr, exists,
              pc, ops, limit, loc, ret, clobbered, shadowed, synced, events,
              written, acquired>>

iterVars == <<lines, tail, src, pos, yielded, nones, lateSome, erred>>

vars == <<sinkVars, iterVars>>

NoLogger == [set |-> FALSE, start |-> 0, path |-> NoPath, by |-> NoThread]

NoLocals ==
  [path |-> NoPath, level |-> Off, start |-> 0, late |-> FALSE, target |-> <<>>,
   offset |-> [secs |-> 0, nanos |-> 0]]

NoRet == [res |-> "none", path |-> NoPath, late |-> FALSE]

SinkStart ==
  /\ now = 0
  /\ logger = NoLogger
  /\ maxLevel = Off
  /\ holder = NoThread
  /\ poisoned = FALSE
  /\ stream = <<>>
  /\ flushed = 0
  /\ hdr = FALSE
  /\ exists = [p \in Paths |-> FALSE]
  /\ pc = [t \in Threads |-> "idle"]
  /\ ops = 0
  /\ loc = [t \in Threads |-> NoLocals]
  /\ ret = [t \in Threads |-> NoRet]
  /\ clobbered = FALSE
  /\ shadowed = FALSE
  /\ synced = FALSE
  /\ events = <<>>
  /\ written = <<>>
  /\ acquired = <<>>

InitSink == SinkStart /\ limit = MaxOps

\* No LogEntryIter is open.
NoIter ==
  /\ lines = <<>> /\ tail = <<>> /\ src = <<>> /\ pos = 1
  /\ yielded = <<>> /\ nones = 0 /\ lateSome = FALSE /\ erred = FALSE

Init == InitSink /\ NoIter

\* A clock that may step back, as the wall clock (SystemTime) does.
ClockReadings_WallClock == 0..MaxTime

\* Instant::now(): the monotonic clock never reads less than it has read
\* before (time passes between two readings, or does not).
ClockReadings == now..MaxTime

\* The encoder hands compressed output to the file as it pleases: after a
\* write that grew the stream to new, the decodable part of the file is what
\* it was, or it ends where the write ended (a write that stopped inside a
\* record ends inside the record).
DumpTo(new) == {flushed, Len(new)}

\* What a decoder gets from the installed Logger's file.
FileView == IF shadowed THEN <<>> ELSE SubSeq(stream, 1, flushed)

\* The positions inside a chunk of n bytes at which the model lets a failing
\* write stop: before its first byte, in its middle, before its last byte.
CutPoints(n) == {0, n \div 2, n - 1}

(* init *)

\* An init call has returned Ok: the thread that installed the Logger has
\* left init.
InitSucceeded == logger.set /\ pc[logger.by] # "setmax"

\* Another encoder creates, truncates or writes the file at path p.
Touches(p) == logger.set /\ logger.path = p

\* An init that sets the threshold before it creates the file.
InitCreate_LevelFirst(t, p, lvl) ==
  /\ pc[t] = "idle" /\ ops < limit
  /\ ops' = ops + 1 /\ UNCHANGED limit
  /\ maxLevel' = lvl
  /\ IF p \in Creatable
     THEN /\ exists' = [exists EXCEPT ![p] = TRUE]
          /\ clobbered' = (clobbered \/ Touches(p))
          /\ shadowed' = (shadowed \/ (Touches(p) /\ hdr))
          /\ loc' = [loc EXCEPT ![t] = [NoLocals EXCEPT !.path = p, !.level = lvl,
                                          !.start = now, !.late = InitSucceeded]]
          /\ pc' = [pc EXCEPT ![t] = "install"]
          /\ UNCHANGED ret
     ELSE /\ ret' = [ret EXCEPT ![t] = [res |-> "CreateFileError", path |-> p,
                                        late |-> InitSucceeded]]
          /\ UNCHANGED <<exists, clobbered, shadowed, loc, pc>>
  /\ UNCHANGED <<now, logger, holder, poisoned, stream, flushed, hdr,
                 synced, events, written, acquired>>

\* init, lines 55-58: Instant::now(), then File::create(path)?: the file is
\* created or truncated, or init returns CreateFileError.
InitCreate(t, p, lvl) ==
  /\ pc[t] = "idle" /\ ops < limit
  /\ ops' = ops + 1 /\ UNCHANGED limit
  /\ IF p \in Creatable
     THEN /\ exists' = [exists EXCEPT ![p] = TRUE]
          /\ clobbered' = (clobbered \/ Touches(p))
          /\ shadowed' = (shadowed \/ (Touches(p) /\ hdr))
          /\ loc' = [loc EXCEPT ![t] = [NoLocals EXCEPT !.path = p, !.level = lvl,
                                          !.start = now, !.late = InitSucceeded]]
          /\ pc' = [pc EXCEPT ![t] = "install"]
          /\ UNCHANGED ret
     ELSE /\ ret' = [ret EXCEPT ![t] = [res |-> "CreateFileError", path |-> p,
                                        late |-> InitSucceeded]]
          /\ UNCHANGED <<exists, clobbered, shadowed, loc, pc>>
  /\ UNCHANGED <<now, logger, maxLevel, holder, poisoned, stream, flushed, hdr,
                 synced, events, written, acquired>>

\* set_boxed_logger that replaces the Logger installed before.
InitInstall_Replace(t) ==
  /\ pc[t] = "install"
  /\ logger' = [set |-> TRUE, start |-> loc[t].start, path |-> loc[t].path, by |-> t]
  /\ pc' = [pc EXCEPT ![t] = "setmax"]
  /\ UNCHANGED <<clobbered, shadowed, ret, loc>>
  /\ UNCHANGED <<now, maxLevel, holder, poisoned, stream, flushed, hdr, exists,
                 ops, limit, synced, events, written, acquired>>

\* init, line 59: log::set_boxed_logger(logger)?: installs the Logger when
\* none is installed; otherwise the Box is dropped, its GzEncoder finishes its
\* (empty) stream into the file it opened, and init returns SetLoggerError.
InitInstall(t) ==
  /\ pc[t] = "install"
  /\ IF ~logger.set
     THEN /\ logger' = [set |-> TRUE, start |-> loc[t].start, path |-> loc[t].path,
                        by |-> t]
          /\ pc' = [pc EXCEPT ![t] = "setmax"]
          /\ UNCHANGED <<clobbered, shadowed, ret, loc>>
     ELSE /\ clobbered' = (clobbered \/ Touches(loc[t].path))
          /\ shadowed' = (shadowed \/ (Touches(loc[t].path) /\ hdr))
          /\ ret' = [ret EXCEPT ![t] = [res |-> "SetLoggerError", path |-> loc[t].path,
                                        late |-> loc[t].late]]
          /\ pc' = [pc EXCEPT ![t] = "idle"]
          /\ loc' = [loc EXCEPT ![t] = NoLocals]
          /\ UNCHANGED logger
  /\ UNCHANGED <<now, maxLevel, holder, poisoned, stream, flushed, hdr, exists,
                 ops, limit, synced, events, written, acquired>>

\* init, lines 60-61: log::set_max_level(level); Ok(()).
InitSetMax(t) ==
  /\ pc[t] = "setmax"
  /\ maxLevel' = loc[t].level
  /\ ret' = [ret EXCEPT ![t] = [res |-> "Ok", path |-> loc[t].path,
                                late |-> loc[t].late]]
  /\ pc' = [pc EXCEPT ![t] = "idle"]
  /\ loc' = [loc EXCEPT ![t] = NoLocals]
  /\ UNCHANGED <<now, logger, holder, poisoned, stream, flushed, hdr, exists,
                 ops, limit, clobbered, shadowed, synced, events, written, acquired>>

(* Logger::log *)

\* enabled() that lets every level through.
Enabled_Always(lvl) == TRUE

\* Logger::enabled, line 66.
Enabled(lvl) == lvl <= maxLevel

\* Logger::log, lines 70-76: the event is dropped unless enabled; otherwise
\* the LogEntryArgs is built, its offset start.elapsed().
LogCheck(t, lvl) ==
  /\ pc[t] = "idle" /\ ops < limit
  /\ logger.set
  /\ ops' = ops + 1 /\ UNCHANGED limit
  /\ events' = Append(events, [thr |-> t, level |-> lvl, ready |-> InitSucceeded])
  /\ IF Enabled(lvl)
     THEN /\ now' \in ClockReadings
          /\ pc' = [pc EXCEPT ![t] = "lock"]
          /\ loc' = [loc EXCEPT ![t] =
                       [NoLocals EXCEPT !.level = lvl, !.target = TargetOf(t),
                                        !.offset = DurationOf(now' - logger.start)]]
     ELSE UNCHANGED <<now, pc, loc>>
  /\ UNCHANGED <<logger, maxLevel, holder, poisoned, stream, flushed, hdr,
                 exists, ret, clobbered, shadowed, synced, written, acquired>>

\* The LogEntryArgs built by thread t.
EntryArgs(t) ==
  [offset |-> loc[t].offset, level |-> loc[t].level, target |-> loc[t].target,
   body |-> EventArgs]

\* The LogEntry that the LogEntryArgs of thread t stands for.
EntryOf(t) ==
  [offset |-> loc[t].offset, level |-> loc[t].level, target |-> loc[t].target,
   body |-> Render(EventArgs)]

\* A lock that is given to every caller at once.
CanLock_NoExclusion(t) == TRUE

\* Mutex::lock: waits until the mutex is free and takes it.
CanLock(t) == holder = NoThread

\* Logger::log, line 77: if let Ok(writer) = self.dest.lock(). On a poisoned
\* mutex lock() is Err, and the guard inside it is dropped at once.
LogLock(t) ==
  /\ pc[t] = "lock"
  /\ CanLock(t)
  /\ IF poisoned
     THEN /\ pc' = [pc EXCEPT ![t] = "idle"]
          /\ loc' = [loc EXCEPT ![t] = NoLocals]
          /\ UNCHANGED <<holder, acquired>>
     ELSE /\ holder' = t
          /\ pc' = [pc EXCEPT ![t] = "ser"]
          /\ acquired' = Append(acquired, [thr |-> t, entry |-> EntryOf(t)])
          /\ UNCHANGED loc
  /\ UNCHANGED <<now, logger, maxLevel, poisoned, stream, flushed, hdr, exists,
                 ops, limit, ret, clobbered, shadowed, synced, events, written>>

\* .unwrap() on an Err while the guard is alive: the thread panics, the
\* guard is dropped during unwinding, which poisons and unlocks the mutex.
Panic(t) ==
  /\ pc' = [pc EXCEPT ![t] = "panicked"]
  /\ holder' = NoThread
  /\ poisoned' = TRUE

\* Logger::log, line 78: serde_json::to_writer(&mut *writer, &entry).unwrap().
\* It writes the encoding piece by piece; when a piece fails to be written or
\* the body fails to render, the pieces before it have been written.
LogSerialize(t) ==
  /\ pc[t] = "ser"
  /\ LET bytes == SerLogEntryArgs(EntryArgs(t))
     IN \/ /\ stream' = stream \o bytes
           /\ pc' = [pc EXCEPT ![t] = "nl"]
           /\ UNCHANGED <<holder, poisoned>>
        \/ /\ \E k \in CutPoints(Len(bytes)) : stream' = stream \o SubSeq(bytes, 1, k)
           /\ Panic(t)
  /\ hdr' = TRUE
  /\ synced' = FALSE
  /\ flushed' \in DumpTo(stream')
  /\ UNCHANGED <<now, logger, maxLevel, exists, ops, limit, loc, ret, clobbered, shadowed,
                 events, written, acquired>>

\* The bytes serde_json has written when it starts to render the body: all
\* of the encoding before the characters of the body.
BeforeBody(a) ==
  SubSeq(SerLogEntryArgs(a), 1, Len(SerLogEntryArgs(a)) - Len(CollectStr(a.body)))

\* Logger::log, line 78, the body's arguments logging as they are rendered:
\* to_writer formats record.args() while the guard is alive, and a Display
\* impl among them logs an event that is enabled. The nested Logger::log
\* calls self.dest.lock() in the thread that holds the mutex, which never
\* returns: std leaves open whether it blocks for ever or panics.
LogReenter(t, lvl) ==
  /\ pc[t] = "ser" /\ ops < limit
  /\ Enabled(lvl)
  /\ ops' = ops + 1 /\ UNCHANGED limit
  /\ events' = Append(events, [thr |-> t, level |-> lvl, ready |-> InitSucceeded])
  /\ stream' = stream \o BeforeBody(EntryArgs(t))
  /\ \/ /\ pc' = [pc EXCEPT ![t] = "deadlock"]
        /\ UNCHANGED <<holder, poisoned>>
     \/ Panic(t)
  /\ hdr' = TRUE
  /\ synced' = FALSE
  /\ flushed' \in DumpTo(stream')
  /\ UNCHANGED <<now, logger, maxLevel, exists, loc, ret, clobbered, shadowed,
                 written, acquired>>

\* Logger::log, lines 79-80: writer.write_all(&[b'\n']).unwrap(), then the
\* guard goes out of scope.
LogNewline(t) ==
  /\ pc[t] = "nl"
  /\ \/ /\ stream' = stream \o <<NL>>
        /\ flushed' \in DumpTo(stream')
        /\ written' = Append(written, [thr |-> t, entry |-> EntryOf(t)])
        /\ holder' = NoThread
        /\ pc' = [pc EXCEPT ![t] = "idle"]
        /\ UNCHANGED poisoned
     \/ /\ Panic(t)
        /\ UNCHANGED <<stream, flushed, written>>
  /\ loc' = [loc EXCEPT ![t] = NoLocals]
  /\ UNCHANGED <<now, logger, maxLevel, hdr, exists, ops, limit, ret, clobbered, shadowed,
                 synced, events, acquired>>

(* Logger::flush *)

\* Logger::flush, line 85: if let Ok(writer) = self.dest.lock().
FlushLock(t) ==
  /\ pc[t] = "idle" /\ ops < limit
  /\ logger.set
  /\ CanLock(t)
  /\ ops' = ops + 1 /\ UNCHANGED limit
  /\ IF poisoned
     THEN UNCHANGED <<holder, pc>>
     ELSE /\ holder' = t
          /\ pc' = [pc EXCEPT ![t] = "flush"]
  /\ UNCHANGED <<now, logger, maxLevel, poisoned, stream, flushed, hdr, exists,
                 loc, ret, clobbered, shadowed, synced, events, written, acquired>>

\* A flush that leaves the encoder's buffer where it is.
FlushWrite_Nothing(t) ==
  /\ pc[t] = "flush"
  /\ holder' = NoThread
  /\ pc' = [pc EXCEPT ![t] = "idle"]
  /\ synced' = TRUE
  /\ hdr' = TRUE
  /\ UNCHANGED <<now, logger, maxLevel, stream, flushed, exists, ops, limit, loc, ret,
                 clobbered, shadowed, events, written, acquired, poisoned>>

\* Logger::flush, lines 86-87: writer.flush().unwrap(): everything handed to
\* the encoder reaches the file; then the guard goes out of scope.
FlushWrite(t) ==
  /\ pc[t] = "flush"
  /\ \/ /\ flushed' = Len(stream)
        /\ synced' = TRUE
        /\ holder' = NoThread
        /\ pc' = [pc EXCEPT ![t] = "idle"]
        /\ UNCHANGED poisoned
     \/ /\ flushed' \in DumpTo(stream)
        /\ Panic(t)
        /\ UNCHANGED synced
  /\ hdr' = TRUE
  /\ UNCHANGED <<now, logger, maxLevel, stream, exists, ops, limit, loc, ret, clobbered,
                 shadowed, events, written, acquired>>

Next ==
  /\ \/ \E t \in Threads, p \in Paths : \E lvl \in InitLevels(t) : InitCreate(t, p, lvl)
     \/ \E t \in Threads : InitInstall(t)
     \/ \E t \in Threads : InitSetMax(t)
     \/ \E t \in Threads, lvl \in EventLevels : LogCheck(t, lvl)
     \/ \E t \in Threads : LogLock(t)
     \/ \E t \in Threads : LogSerialize(t)
     \/ \E t \in Threads, lvl \in EventLevels : LogReenter(t, lvl)
     \/ \E t \in Threads : LogNewline(t)
     \/ \E t \in Threads : FlushLock(t)
     \/ \E t \in Threads : FlushWrite(t)
  /\ UNCHANGED iterVars

Spec == Init /\ [][Next]_vars

\* The calls of one thread, one after the other.
Main == "t1"

InitSeq == SinkStart /\ limit = MaxSeqOps /\ NoIter

NextSeq ==
  /\ \/ \E p \in Paths, lvl \in InitLevels(Main) : InitCreate(Main, p, lvl)
     \/ InitInstall(Main)
     \/ InitSetMax(Main)
     \/ \E lvl \in EventLevels : LogCheck(Main, lvl)
     \/ LogLock(Main)
     \/ LogSerialize(Main)
     \/ \E lvl \in EventLevels : LogReenter(Main, lvl)
     \/ LogNewline(Main)
     \/ FlushLock(Main)
     \/ FlushWrite(Main)
  /\ UNCHANGED iterVars

SpecSeq == InitSeq /\ [][NextSeq]_vars

----------------------------------------------------------------------------
(* Reading: a LogEntryIter over a decompressed source *)

\* Entries whose lines the sources are made of.
SampleEntries ==
  { [offset |-> DurationOf(1), level |-> Warn, target |-> <<"a">>, body |-> <<"m", NL>>],
    [offset |-> DurationOf(0), level |-> Error, target |-> <<>>, body |-> <<Q, "n">>] }

\* The lines of a source: the encoding of an entry, the same with white space
\* and a key no field is named by, and lines that are no LogEntry.
LineKinds ==
  { [good |-> TRUE, entry |-> e, bytes |-> SerLogEntry(e) \o <<NL>>] : e \in SampleEntries }
  \cup
  { [good |-> TRUE, entry |-> e,
     bytes |-> <<"{", Q, "x", Q, ":", "1", ",", SP>> \o Tail(SerLogEntry(e)) \o <<SP, NL>>] :
      e \in SampleEntries }
  \cup
  { [good |-> FALSE, entry |-> EmptyEntry, bytes |-> b] :
      b \in { <<"x", NL>>, <<NL>>, <<"{", "}", NL>> } }

\* The ends of a source after its last line terminator: nothing, a record cut
\* short, a whole record without its terminator, other bytes.
Tails ==
  { <<>>, <<"x">> }
  \cup { SerLogEntry(e) : e \in SampleEntries }
  \cup { SubSeq(SerLogEntry(e), 1, Len(SerLogEntry(e)) \div 2) : e \in SampleEntries }

RECURSIVE SeqsUpTo(_, _)
SeqsUpTo(S, n) ==
  IF n = 0 THEN {<<>>}
  ELSE LET shorter == SeqsUpTo(S, n - 1)
       IN shorter \cup {Append(q, x) : q \in shorter, x \in S}

\* read(path), lines 112-117, on a file that opens: the iterator at the
\* start of the decompressed bytes of the file.
InitIter ==
  /\ lines \in SeqsUpTo(LineKinds, MaxLines)
  /\ tail \in Tails
  /\ src = Flatten([i \in 1..Len(lines) |-> lines[i].bytes]) \o tail
  /\ pos = 1
  /\ yielded = <<>>
  /\ nones = 0
  /\ lateSome = FALSE
  /\ erred = FALSE

\* LogEntryIter::next, lines 100-108, the read succeeding.
IterStep ==
  /\ nones <= MaxProbes
  /\ LET r == IterNext(src, pos)
     IN /\ pos' = r.pos
        /\ yielded' = IF r.item.some THEN Append(yielded, r.item.val) ELSE yielded
        /\ nones' = IF r.item.some THEN nones ELSE nones + 1
        /\ lateSome' = (lateSome \/ (r.item.some /\ nones > 0))
  /\ UNCHANGED <<lines, tail, src, erred>>

\* LogEntryIter::next, line 102, read_until failing: .ok()? returns None. The
\* bytes read_until took before the failure are gone from the source; it
\* takes none after the line terminator.
IterReadErr ==
  /\ nones <= MaxProbes
  /\ pos <= Len(src)
  /\ pos' \in {pos, ReadUntil(src, pos) - 1}
  /\ nones' = nones + 1
  /\ erred' = TRUE
  /\ UNCHANGED <<lines, tail, src, yielded, lateSome>>

NextIter ==
  /\ \/ IterStep
     \/ IterReadErr
  /\ UNCHANGED sinkVars

\* The process has not called init; a file is opened for reading.
InitRead == InitSink /\ InitIter

SpecIter == InitRead /\ [][NextIter]_vars

----------------------------------------------------------------------------
(* Encoding and decoding one record *)

\* The characters strings are made of: those that are escaped, and the "n"
\* that follows the backslash in the escape of the line terminator.
Chars == {Q, BS, NL, "n"}

\* The pieces a Display impl writes: nothing, or one character.
Pieces == {<<>>} \cup {<<c>> : c \in Chars}

\* The format arguments of an event, as the pieces they are rendered in.
ArgLists == SeqsUpTo(Pieces, MaxPieces)

Targets == {<<"a", NL>>, <<BS, Q>>}

\* Valid Durations (nanos below one second), below and above one second.
Durations == {DurationOf(k) : k \in 0..(MaxTime + TicksPerSec - 1)}

\* A record is encoded, eagerly as a LogEntry or lazily as the LogEntryArgs
\* Logger::log builds (lines 71-79), and the line is handed to a LogEntryIter.
InitCodec ==
  /\ \E off \in Durations, l \in Levels, tg \in Targets, ar \in ArgLists :
       LET a == [offset |-> off, level |-> l, target |-> tg, body |-> ar]
           e == [offset |-> off, level |-> l, target |-> tg, body |-> Render(ar)]
       IN \E b \in {SerLogEntry(e), SerLogEntryArgs(a)} :
            lines = <<[good |-> TRUE, entry |-> e, args |-> ar, bytes |-> b \o <<NL>>]>>
  /\ tail = <<>>
  /\ src = lines[1].bytes
  /\ pos = 1
  /\ yielded = <<>>
  /\ nones = 0
  /\ lateSome = FALSE
  /\ erred = FALSE

InitRoundTrip == InitSink /\ InitCodec

SpecCodec == InitRoundTrip /\ [][NextIter]_vars

----------------------------------------------------------------------------
(* Properties *)

IsPrefix(a, b) == Len(a) <= Len(b) /\ SubSeq(b, 1, Len(a)) = a

\* The bytes of whole units: each entry encoded, then one line terminator.
Units(ws) == Flatten([i \in 1..Len(ws) |-> SerLogEntry(ws[i].entry) \o <<NL>>])

Entries(ws) == [i \in 1..Len(ws) |-> ws[i].entry]

\* C1: log and flush return normally to their caller whatever fails while
\* they serialize, write or flush: no call ends in a panic.
C1_NoPanic == \A t \in Threads : pc[t] # "panicked"

\* C2: once next() has returned None, it never returns an entry again.
C2_Fused == ~lateSome

\* C3 (as stated): an init call made after an init has succeeded returns
\* SetLoggerError.
C3_LaterInitSetLoggerError ==
  \A t \in Threads : ret[t].late => ret[t].res = "SetLoggerError"

\* C3 (amended): an init call made after an init has succeeded fails, with
\* SetLoggerError when the file at its path can be created and CreateFileError
\* when it cannot; and once an init has succeeded no step changes the
\* installed Logger or the threshold.
C3_LaterInitFails ==
  [][ /\ InitSucceeded => (logger' = logger /\ maxLevel' = maxLevel)
      /\ \A t \in Threads :
           ret'[t].late =>
             ret'[t].res = IF ret'[t].path \in Creatable THEN "SetLoggerError"
                                                        ELSE "CreateFileError" ]_vars

\* An init made after the successful one has returned SetLoggerError and an
\* event is being written through the installed Logger.
C3_Witness ==
  /\ \E t \in Threads : ret[t].late /\ ret[t].res = "SetLoggerError"
  /\ \E u \in Threads : pc[u] = "nl"

\* C4: the file of the installed Logger is created, truncated and written
\* through the Logger's own encoder only.
C4_OnlySinkWrites == ~clobbered

\* The bytes of the stream after the whole units written so far.
Rest == SubSeq(stream, Len(Units(written)) + 1, Len(stream))

NoTerminator(bytes) == \A i \in 1..Len(bytes) : bytes[i] # NL

\* C5 (as stated): whenever no call holds the lock, the bytes handed to the
\* encoder are a concatenation of whole units.
C5_WholeUnits == holder = NoThread => stream = Units(written)

\* C5 (amended): the bytes handed to the encoder are the whole units written
\* so far, in order, followed only by the unfinished unit of the one log call
\* that holds the lock or whose write failed; no flush runs and no call takes
\* the lock while an unfinished unit ends the stream, unless the mutex is
\* poisoned (and then nothing is written any more).
C5_UnitsThenPartial ==
  LET whole == Units(written)
      rest == SubSeq(stream, Len(whole) + 1, Len(stream))
  IN /\ IsPrefix(whole, stream)
     /\ NoTerminator(rest)
     /\ rest # <<>> =>
          (poisoned \/ \E t \in Threads : pc[t] \in {"nl", "deadlock"} /\ holder = t)
     /\ \A t \in Threads : pc[t] \in {"ser", "flush"} => stream = whole
     /\ (holder = NoThread /\ ~poisoned) => stream = whole

\* One thread is between its record and the terminator while the other
\* waits for the lock.
C5_Witness ==
  \E t, u \in Threads : t # u /\ pc[t] = "nl" /\ pc[u] = "lock" /\ Rest # <<>>

\* C6 (as stated): the offsets of the records are non-decreasing in the order
\* in which the records were written to the stream.
C6_Monotonic ==
  \A i, j \in 1..Len(written) :
    i < j => DurLeq(written[i].entry.offset, written[j].entry.offset)

\* C6 (amended): the offsets of the records one thread logged are
\* non-decreasing in the order in which they were written to the stream.
C6_MonotonicPerThread ==
  \A i, j \in 1..Len(written) :
    (i < j /\ written[i].thr = written[j].thr)
      => DurLeq(written[i].entry.offset, written[j].entry.offset)

\* Two records of one thread with different offsets are in the stream.
C6_Witness ==
  \E i, j \in 1..Len(written) :
    /\ i < j /\ written[i].thr = written[j].thr
    /\ written[i].entry.offset # written[j].entry.offset
    /\ IsPrefix(Units(written), stream)

\* The events a sequential run logged with a level the threshold lets through.
Accepted == SelectSeq(events, LAMBDA e : e.level <= maxLevel)

LevelsOf(rs, t) ==
  LET mine == SelectSeq(rs, LAMBDA r : r.target = TargetOf(t))
  IN [i \in 1..Len(mine) |-> mine[i].level]

\* The levels of the events thread t logged that the threshold lets through.
LevelsLogged(t) ==
  LET mine == SelectSeq(events, LAMBDA e : e.thr = t /\ e.level <= maxLevel)
  IN [i \in 1..Len(mine) |-> mine[i].level]

\* Every log call made so far was made after init had returned and has
\* returned, and all that was handed to the encoder has reached the file.
AllLoggedAndInFile ==
  /\ InitSucceeded /\ ~clobbered /\ flushed = Len(stream)
  /\ \A t \in Threads : pc[t] \in {"idle", "install"}
  /\ \A i \in 1..Len(events) : events[i].ready

\* C8: a log call whose level is above the threshold takes no lock, builds no
\* entry and writes nothing, the step changes nothing of the Logger or the
\* thread; so the records read back are those of the events whose level is
\* at most the threshold, for each thread in the order of its calls.
C8_RejectedNoEffect ==
  /\ [][ (Len(events') = Len(events) + 1 /\ events'[Len(events')].level > maxLevel)
         => UNCHANGED <<now, logger, maxLevel, holder, poisoned, stream, flushed, hdr,
                        exists, pc, loc, ret, clobbered, shadowed, synced, written>> ]_vars
  /\ [](AllLoggedAndInFile =>
          LET r == ReadAll(FileView)
          IN /\ \A t \in Threads : LevelsOf(r, t) = LevelsLogged(t)
             /\ \A i \in 1..Len(r) : r[i].level <= maxLevel)

\* With threshold Info a Debug event and an Info event have been logged, and
\* the file holds one record.
C8_Witness ==
  /\ AllLoggedAndInFile /\ maxLevel = Info
  /\ \E i, j \in 1..Len(events) : events[i].level = Debug /\ events[j].level = Info
  /\ Len(ReadAll(FileView)) = 1

\* The source is well-formed lines and then a tail without terminator.
Truncated == tail # <<>> /\ \A i \in 1..Len(lines) : lines[i].good

\* C9: on n well-formed terminated lines followed by a non-empty tail without
\* terminator, next() yields the n entries of the lines in order and then
\* None; the tail is never yielded.
C9_Truncation ==
  (Truncated /\ ~erred)
  => /\ yielded = SubSeq([i \in 1..Len(lines) |-> lines[i].entry], 1, Len(yielded))
     /\ nones > 0 => Len(yielded) = Len(lines)

\* The two lines before a whole record that lacks its terminator have been
\* yielded and next() has returned None.
C9_Witness ==
  /\ Truncated /\ ~erred /\ Len(lines) = 2 /\ nones > 0 /\ Len(yielded) = 2
  /\ tail \in {SerLogEntry(e) : e \in SampleEntries}

\* C10: at every point, what a fresh read of the Logger's file yields is a
\* prefix of the entries written so far, in the order in which they were
\* written.
C10_ReadIsPrefix == IsPrefix(ReadAll(FileView), Entries(written))

\* A record has reached the file whole but for its terminator while an
\* earlier one is read back.
C10_Witness ==
  /\ \E t \in Threads : pc[t] = "nl"
  /\ flushed = Len(stream) /\ ~shadowed
  /\ Len(written) = 1 /\ Len(ReadAll(FileView)) = 1

\* C11: the records are in the stream in the order in which their log calls
\* took the lock: the stream starts with the units written, and these are the
\* first of the calls that took the lock, in that order.
C11_LockOrder ==
  /\ IsPrefix(Units(written), stream)
  /\ IsPrefix(written, acquired)

\* Two threads have written a record each, in the order in which they took
\* the lock, which is not the order in which they called log.
C11_Witness ==
  /\ Len(written) = 2 /\ written = acquired
  /\ written[1].thr # written[2].thr
  /\ events[1].thr = written[2].thr
  /\ stream = Units(written)

\* The record that was encoded, and the LogEntryArgs it was encoded from.
Encoded == lines[1].entry

EncodedArgs == [Encoded EXCEPT !.body = lines[1].args]

\* next() has been called on the line and the read did not fail.
Decoded == ~erred /\ (yielded # <<>> \/ nones > 0)

\* C12: the encoding of a valid record holds no line terminator, so with its
\* terminator it is one line, and decoding that line yields the record.
C12_RoundTrip ==
  /\ NoTerminator(SerLogEntry(Encoded))
  /\ (src = SerLogEntry(Encoded) \o <<NL>> /\ Decoded) => yielded = <<Encoded>>

\* A record with a line terminator in its target and in its body has been
\* decoded from its encoding.
C12_Witness ==
  /\ src = SerLogEntry(Encoded) \o <<NL>> /\ yielded = <<Encoded>>
  /\ ~NoTerminator(Encoded.target) /\ ~NoTerminator(Encoded.body)

\* C13: a LogEntryArgs encodes to the bytes of the LogEntry with its offset,
\* level and target and the rendered arguments as body, and decoding what
\* was written from it yields that LogEntry.
C13_SameBytes ==
  /\ SerLogEntryArgs(EncodedArgs) = SerLogEntry(Encoded)
  /\ (src = SerLogEntryArgs(EncodedArgs) \o <<NL>> /\ Decoded) => yielded = <<Encoded>>

\* Arguments rendered in two pieces, a backslash and an "n", have been decoded
\* to the body of these two characters.
C13_Witness ==
  /\ lines[1].args = << <<BS>>, <<"n">> >>
  /\ src = SerLogEntryArgs(EncodedArgs) \o <<NL>>
  /\ yielded = <<Encoded>> /\ Encoded.body = <<BS, "n">>

\* The names the levels are to be encoded to, by level.
UpperCase == <<"ERROR", "WARN", "INFO", "DEBUG", "TRACE">>

\* C14: in both encodings the level is written as its uppercase name, that
\* name decodes to the level, and no two levels have the same name.
C14_LevelNames ==
  LET l == Encoded.level
      name == <<Q, "level", Q, ":", Q, UpperCase[l], Q>>
  IN /\ SubSeq(SerLogEntry(Encoded), 20, 26) = name
     /\ SubSeq(SerLogEntryArgs(EncodedArgs), 20, 26) = name
     /\ ParseLevel(<<Q, UpperCase[l], Q>>, 1) = [ok |-> TRUE, val |-> l, next |-> 4]
     /\ \A k \in Levels : UpperCase[k] = UpperCase[l] => k = l
     /\ Decoded => (yielded # <<>> /\ yielded[1].level = l)

\* Each of the five levels has been encoded and decoded.
C14_Witness ==
  /\ Decoded /\ yielded # <<>> /\ yielded[1].level = Trace
  /\ SubSeq(src, 24, 26) = <<Q, "TRACE", Q>>

\* C15: an init that returns CreateFileError was given a path that cannot be
\* created, and its step changes nothing of the process but its own result:
\* no Logger is installed, the threshold is not set, no file is made and no
\* thread is moved, so whatever init could do before it can do after.
C15_CreateFailureNoEffect ==
  /\ [][ \A t \in Threads :
           (ret'[t] # ret[t] /\ ret'[t].res = "CreateFileError")
             => /\ ret'[t].path \notin Creatable
                /\ UNCHANGED <<now, logger, maxLevel, holder, poisoned, stream, flushed,
                               hdr, exists, pc, loc, clobbered, shadowed, synced, events,
                               written, acquired>> ]_vars
  /\ [](\A t \in Threads :
          ret[t].res = "CreateFileError"
            => ~exists[ret[t].path] /\ logger.path # ret[t].path)

\* One thread has made two calls, neither a log nor a flush, while the other
\* made none: an init that returned CreateFileError, then one that returned Ok.
C15_Witness ==
  \E t, u \in Threads :
    /\ t # u /\ ret[u] = NoRet /\ pc[u] = "idle" /\ events = <<>>
    /\ pc[t] = "idle" /\ ~hdr
    /\ ops = 2 /\ ret[t].res = "Ok" /\ InitSucceeded /\ logger.by = t

\* The threshold given to the init that installed the Logger.
Threshold == IF pc[logger.by] = "setmax" THEN loc[logger.by].level ELSE maxLevel

\* C16: from the step that installs the Logger on, a log call whose level is
\* at most the threshold given to that init goes on to write its record.
C16_GatedFromInstall ==
  [][ \A t \in Threads :
        ( /\ logger.set /\ pc[t] = "idle"
          /\ Len(events') = Len(events) + 1
          /\ events'[Len(events')].thr = t
          /\ events'[Len(events')].level <= Threshold )
        => pc'[t] = "lock" ]_vars

\* C17: whatever has failed before, a log call that was let through and is
\* given the lock goes on to write its record: it does not return with the
\* stream as it was.
C17_StillWrites ==
  [][ \A t \in Threads :
        (pc[t] = "lock" /\ pc'[t] # "lock") => (pc'[t] = "ser" /\ holder' = t) ]_vars

\* C18: a thread that checks the level of an event, computes its offset and
\* builds its LogEntryArgs does not hold the lock on dest while it does so,
\* and a thread whose log or flush call has returned or unwound does not
\* hold it either.
C18_LockScope ==
  [][ \A t \in Threads :
        /\ ( /\ Len(events') = Len(events) + 1
             /\ events'[Len(events')].thr = t ) => holder # t
        /\ pc'[t] \in {"idle", "panicked"} => holder' # t ]_vars

\* C19: no log or flush call waits for ever: no thread waits at
\* self.dest.lock() for a mutex that is held by a call which cannot go on,
\* in particular by an outer call of its own.
C19_NoCallWaitsForEver ==
  \A t \in Threads :
    /\ ~(pc[t] = "deadlock" /\ holder = t)
    /\ (pc[t] = "lock" /\ holder # NoThread) => pc[holder] \in {"ser", "nl", "flush"}

====
